---- MODULE Spec2Model ----
(***************************************************************************)
(* reaganPLAYER (src/reaganplayer.py): the state machine of the main loop  *)
(* of reaganPLAYER(): the poll for the end-of-track event, the directory   *)
(* listing with its pagination window and item_map, and the dispatch of    *)
(* one user command per iteration.                                         *)
(*                                                                         *)
(* Files are numbers and directories are strings.  The file system is a    *)
(* fixed tree that does not change while the player runs:                  *)
(*     up / root / { A / {},  B / {},  11, 12, 13 }                        *)
(*     big / { 101 .. 125 }                                                *)
(* "root" and "big" are the two music folders a session can be started in. *)
(* No song is the number 0 (None in the source).                           *)
(***************************************************************************)
EXTENDS Integers, Sequences, FiniteSets, TLC

VARIABLES
    config,             \* the dict of load_config(): the five settings
    saved,              \* the content of reaganplayer.json
    current_path,       \* the directory being browsed
    current_playlist,   \* ActivePlaylist
    current_song_index, \* ActiveIndex
    now_playing_song,   \* 0 is None
    is_paused,
    queue,
    music_state,        \* pygame.mixer.music: "stopped", "playing", "paused"
    music_volume,       \* the last value given to pygame.mixer.music.set_volume
    endevents,          \* USEREVENTs waiting in the pygame event queue
    pc,                 \* "poll": top of the loop, "input": blocked in input(), "done"
    from_queue          \* history: now_playing_song was popped from the queue

vars == << config, saved, current_path, current_playlist, current_song_index,
           now_playing_song, is_paused, queue, music_state, music_volume,
           endevents, pc, from_queue >>

(***************************************************************************)
(* Bounds of the model.                                                    *)
(***************************************************************************)
MaxQueue == 2       \* `add` is not taken when the queue already holds this many
MaxChoice == 4      \* the numbers a user types are 0 .. MaxChoice
SmallPage == 2      \* page_size of the configuration the small tree is browsed with

(***************************************************************************)
(* Python floats.  config['volume'] is an IEEE-754 double; every value the *)
(* volume takes is a multiple of 2^-56 in [0, 2), so a double is the pair  *)
(* <<hi, lo>> that stands for (hi * 2^28 + lo) * 2^-56, 0 <= lo < 2^28.    *)
(* A negative hi is a negative number; it is only ever compared.           *)
(***************************************************************************)
Base == 268435456                       \* 2^28
FZero == << 0, 0 >>                     \* 0.0
FTenth == << 26843545, 161061274 >>     \* 0.1 = 7205759403792794 * 2^-56
FHalf == << 134217728, 0 >>             \* 0.5
FOne == << 268435456, 0 >>              \* 1.0

FLess(a, b) == a[1] < b[1] \/ (a[1] = b[1] /\ a[2] < b[2])

\* carry or borrow so that 0 <= lo < Base
FCarry(hi, lo) ==
    IF lo >= Base THEN << hi + 1, lo - Base >>
    ELSE IF lo < 0 THEN << hi - 1, lo + Base >>
    ELSE << hi, lo >>

\* the spacing of doubles around x, in units of 2^-56 (53-bit significand)
FUlp(x) ==
    IF x[1] < 33554432 THEN 1           \* x < 2^-3
    ELSE IF x[1] < 67108864 THEN 2      \* x < 2^-2
    ELSE IF x[1] < 134217728 THEN 4     \* x < 2^-1
    ELSE IF x[1] < 268435456 THEN 8     \* x < 1
    ELSE 16                             \* x < 2

\* round to nearest, ties to even: the rounding of every float operation
FRound(x) ==
    IF x[1] < 0 THEN x
    ELSE LET g == FUlp(x)
             r == x[2] % g
             down == x[2] - r
             even == (down \div g) % 2 = 0
         IN  IF 2 * r < g \/ (2 * r = g /\ even)
             THEN << x[1], down >>
             ELSE FCarry(x[1], down + g)

FAdd(a, b) == FRound(FCarry(a[1] + b[1], a[2] + b[2]))
FSub(a, b) == FRound(FCarry(a[1] - b[1], a[2] - b[2]))

\* Python's min(a, b) and max(a, b): the first argument unless the second
\* is strictly smaller (larger)
FMin(a, b) == IF FLess(b, a) THEN b ELSE a
FMax(a, b) == IF FLess(a, b) THEN b ELSE a

\* line 315: min(1.0, config['volume'] + 0.1)
VolumeUp(v) == FMin(FOne, FAdd(v, FTenth))
\* line 320: max(0.0, config['volume'] - 0.1)
VolumeDown(v) == FMax(FZero, FSub(v, FTenth))


(***************************************************************************)
(* The file system (os.listdir, os.path.isdir, os.path.isfile, dirname).   *)
(***************************************************************************)
NoSong == 0

\* lines 245, 250: the subfolders of a directory, sorted
Folders(d) == IF d = "root" THEN << "A", "B" >> ELSE << >>

\* lines 245, 251: the audio files of a directory, sorted
AudioFiles(d) ==
    CASE d = "root" -> << 11, 12, 13 >>
      [] d = "big" -> [i \in 1..25 |-> 100 + i]
      [] OTHER -> << >>

\* line 396: os.path.dirname
Dirname(d) == IF d \in {"A", "B"} THEN "root" ELSE "up"

\* line 256: view_playlist, the audio files of the current directory
ViewPlaylist(d) == AudioFiles(d)

\* Python's s[a:b] for 0 <= a <= b
Slice(s, a, b) == SubSeq(s, a + 1, IF b < Len(s) THEN b ELSE Len(s))

\* lines 253-257: paginated_audio_files
PageWindow(d, cfg) ==
    LET start_index == cfg.current_page * cfg.page_size
        end_index == start_index + cfg.page_size
    IN  Slice(AudioFiles(d), start_index, end_index)

Item(k, d, f) == [kind |-> k, dir |-> d, file |-> f]

\* the mutant of ItemMap for the layout: the audio files are numbered before
\* the subfolders
ItemMapFilesFirst(d, cfg) ==
    LET parent == IF d # cfg.music_folder THEN << Item("parent", "..", NoSong) >>
                  ELSE << >>
        dirs == [i \in 1..Len(Folders(d)) |-> Item("dir", Folders(d)[i], NoSong)]
        songs == [i \in 1..Len(PageWindow(d, cfg)) |->
                     Item("file", d, PageWindow(d, cfg)[i])]
    IN  parent \o songs \o dirs

\* the mutant of ItemMap for the navigation: the parent entry is offered in
\* every directory
ItemMapParentAlways(d, cfg) ==
    LET parent == << Item("parent", "..", NoSong) >>
        dirs == [i \in 1..Len(Folders(d)) |-> Item("dir", Folders(d)[i], NoSong)]
        songs == [i \in 1..Len(PageWindow(d, cfg)) |->
                     Item("file", d, PageWindow(d, cfg)[i])]
    IN  parent \o dirs \o songs

\* lines 265-283: item_map; entry i of the sequence is item_map[i]
ItemMap(d, cfg) ==
    LET parent == IF d # cfg.music_folder THEN << Item("parent", "..", NoSong) >>
                  ELSE << >>
        dirs == [i \in 1..Len(Folders(d)) |-> Item("dir", Folders(d)[i], NoSong)]
        songs == [i \in 1..Len(PageWindow(d, cfg)) |->
                     Item("file", d, PageWindow(d, cfg)[i])]
    IN  parent \o dirs \o songs

(***************************************************************************)
(* Lists.                                                                  *)
(***************************************************************************)
\* random.shuffle of a copy of s: every permutation of s
Shuffles(s) == { [i \in 1..Len(s) |-> s[p[i]]] : p \in Permutations(1..Len(s)) }

\* sorted(s)
Sorted(s) == SortSeq(s, LAMBDA a, b : a < b)

\* s.index(x), 0-based; -1 stands for ValueError
IndexOf(s, x) ==
    IF \E i \in 1..Len(s) : s[i] = x
    THEN (CHOOSE i \in 1..Len(s) : s[i] = x /\ \A j \in 1..(i - 1) : s[j] # x) - 1
    ELSE -1

\* lines 362-366 and 404-408: the playlists a session can be built with, a
\* shuffled copy of the view playlist or the sorted one
BuildPlaylist(shuffle, view) == IF shuffle THEN Shuffles(view) ELSE { Sorted(view) }

(***************************************************************************)
(* The audio engine, pygame.mixer.music.                                   *)
(***************************************************************************)
\* pygame.mixer.music.get_busy(): a paused track is not busy (pygame 2); the
\* pause command, lines 325-330, could never resume a track otherwise
GetBusy == music_state = "playing"

\* lines 91-99: play_song; ok is the outcome of load.  A failed load raises
\* before play() and leaves the engine as it was.
PlaySong(ok) == music_state' = IF ok THEN "playing" ELSE music_state

\* the mutant of SaveConfig: the write fails and the file stays as it was
SaveConfigFails(cfg) == saved' = saved

\* lines 44-51: save_config (the write succeeds)
SaveConfig(cfg) == saved' = cfg

(***************************************************************************)
(* Init: the state at line 226, before the first iteration.  The settings  *)
(* come from reaganplayer.json as an earlier session left it; line 212 has *)
(* saved them again.                                                       *)
(***************************************************************************)
InitPlayer(cfg) ==
    /\ config = cfg
    /\ saved = cfg
    /\ current_path = cfg.music_folder
    /\ current_playlist = << >>
    /\ current_song_index = -1
    /\ now_playing_song = NoSong
    /\ is_paused = FALSE
    /\ queue = << >>
    /\ music_state = "stopped"
    /\ music_volume = cfg.volume
    /\ endevents = 0
    /\ pc = "poll"
    /\ from_queue = FALSE

Init ==
    \E sh \in BOOLEAN :
        InitPlayer([music_folder |-> "root", volume |-> FHalf, shuffle_on |-> sh,
                    page_size |-> SmallPage, current_page |-> 0])


(***************************************************************************)
(* The top of the loop, lines 229-240 and 242-292.                         *)
(***************************************************************************)
\* the mutant of PlayFromQueue: the index is not invalidated
PlayFromQueueKeepIndex(ok) ==
    /\ queue' = Tail(queue)
    /\ PlaySong(ok)
    /\ now_playing_song' = Head(queue)
    /\ from_queue' = TRUE
    /\ UNCHANGED << current_playlist, current_song_index >>

\* lines 232-236 and 333-337: the queue head is popped and played
PlayFromQueue(ok) ==
    /\ queue' = Tail(queue)
    /\ PlaySong(ok)
    /\ now_playing_song' = Head(queue)
    /\ current_song_index' = -1
    /\ from_queue' = TRUE
    /\ UNCHANGED current_playlist

\* lines 239-240, 340-341, 346-347: the track at the new index is played
PlayFromPlaylist(index, ok) ==
    /\ current_song_index' = index
    /\ PlaySong(ok)
    /\ now_playing_song' = current_playlist[index + 1]
    /\ from_queue' = FALSE
    /\ UNCHANGED << current_playlist, queue >>

\* lines 238 and 339: the index after the current one, wrapping
NextIndex(i, n) == (i + 1) % n

\* the mutant of PreviousIndex: no wrap at the first track
PreviousIndexNoWrap(i, n) == IF i = 0 THEN 0 ELSE i - 1

\* line 345: the index before the current one, wrapping
PreviousIndex(i, n) == (i - 1 + n) % n

\* no branch of the handler is taken
Idle == UNCHANGED << current_playlist, current_song_index, now_playing_song,
                     queue, music_state, from_queue >>

\* the mutant of PollEventLoad: the playlist is looked at before the queue
PollEventPlaylistFirst(ok) ==
    /\ pc = "poll"
    /\ endevents > 0
    /\ endevents' = endevents - 1
    /\ IF current_playlist # << >>
       THEN PlayFromPlaylist(NextIndex(current_song_index, Len(current_playlist)), ok)
       ELSE IF queue # << >>
       THEN PlayFromQueue(ok)
       ELSE Idle
    /\ UNCHANGED << config, saved, current_path, is_paused, music_volume, pc >>

\* the mutant of PollEventLoad for the auto-advance: like >, the playlist is
\* only advanced from a valid index
PollEventNeedsIndex(ok) ==
    /\ pc = "poll"
    /\ endevents > 0
    /\ endevents' = endevents - 1
    /\ IF queue # << >>
       THEN PlayFromQueue(ok)
       ELSE IF current_playlist # << >> /\ current_song_index # -1
       THEN PlayFromPlaylist(NextIndex(current_song_index, Len(current_playlist)), ok)
       ELSE Idle
    /\ UNCHANGED << config, saved, current_path, is_paused, music_volume, pc >>

\* lines 230-240: one USEREVENT of pygame.event.get(); ok is the outcome of
\* the load in play_song
PollEventLoad(ok) ==
    /\ pc = "poll"
    /\ endevents > 0
    /\ endevents' = endevents - 1
    /\ IF queue # << >>
       THEN PlayFromQueue(ok)
       ELSE IF current_playlist # << >>
       THEN PlayFromPlaylist(NextIndex(current_song_index, Len(current_playlist)), ok)
       ELSE Idle
    /\ UNCHANGED << config, saved, current_path, is_paused, music_volume, pc >>

PollEvent == \E ok \in BOOLEAN : PollEventLoad(ok)

\* lines 242-294: the events are done; the listing is drawn and the loop
\* blocks in input()
Render ==
    /\ pc = "poll"
    /\ endevents = 0
    /\ pc' = "input"
    /\ UNCHANGED << config, saved, current_path, current_playlist, current_song_index,
                    now_playing_song, is_paused, queue, music_state, music_volume,
                    endevents, from_queue >>

\* the mutant of TrackEnds: no end event is posted (set_endevent left out)
TrackEndsSilently ==
    /\ pc = "input"
    /\ music_state = "playing"
    /\ music_state' = "stopped"
    /\ UNCHANGED << config, saved, current_path, current_playlist, current_song_index,
                    now_playing_song, is_paused, queue, music_volume, endevents, pc,
                    from_queue >>

\* line 188: the engine finishes the track and posts the end event.  The
\* loop spends its time blocked in input(), line 294, so that is where a
\* track ends; a paused track does not end.
TrackEnds ==
    /\ pc = "input"
    /\ music_state = "playing"
    /\ music_state' = "stopped"
    /\ endevents' = endevents + 1
    /\ UNCHANGED << config, saved, current_path, current_playlist, current_song_index,
                    now_playing_song, is_paused, queue, music_volume, pc, from_queue >>

(***************************************************************************)
(* The commands, lines 294-418.  Every command but q ends the iteration.   *)
(***************************************************************************)
Command == pc = "input" /\ pc' = "poll"

\* the mutant of CmdAdd: the track is put at the front of the queue
CmdAddFront(n) ==
    /\ Command
    /\ Len(queue) < MaxQueue
    /\ LET item_map == ItemMap(current_path, config)
       IN  IF n \in 1..Len(item_map) /\ item_map[n].kind = "file"
           THEN queue' = << item_map[n].file >> \o queue
           ELSE queue' = queue
    /\ UNCHANGED << config, saved, current_path, current_playlist, current_song_index,
                    now_playing_song, is_paused, music_state, music_volume,
                    endevents, from_queue >>

\* lines 296-307: add, with the number typed at the second prompt
CmdAdd(n) ==
    /\ Command
    /\ Len(queue) < MaxQueue
    /\ LET item_map == ItemMap(current_path, config)
       IN  IF n \in 1..Len(item_map) /\ item_map[n].kind = "file"
           THEN queue' = Append(queue, item_map[n].file)
           ELSE queue' = queue
    /\ UNCHANGED << config, saved, current_path, current_playlist, current_song_index,
                    now_playing_song, is_paused, music_state, music_volume,
                    endevents, from_queue >>

\* lines 308-312: clear
CmdClear ==
    /\ Command
    /\ queue' = << >>
    /\ UNCHANGED << config, saved, current_path, current_playlist, current_song_index,
                    now_playing_song, is_paused, music_state, music_volume,
                    endevents, from_queue >>

\* lines 314-318: +
CmdVolumeUp ==
    /\ Command
    /\ config' = [config EXCEPT !.volume = VolumeUp(@)]
    /\ music_volume' = config'.volume
    /\ SaveConfig(config')
    /\ UNCHANGED << current_path, current_playlist, current_song_index,
                    now_playing_song, is_paused, queue, music_state, endevents,
                    from_queue >>

\* lines 319-323: -
CmdVolumeDown ==
    /\ Command
    /\ config' = [config EXCEPT !.volume = VolumeDown(@)]
    /\ music_volume' = config'.volume
    /\ SaveConfig(config')
    /\ UNCHANGED << current_path, current_playlist, current_song_index,
                    now_playing_song, is_paused, queue, music_state, endevents,
                    from_queue >>

\* lines 324-331: pause (the line is stripped, so the alias ' ' never matches)
CmdPause ==
    /\ Command
    /\ IF GetBusy
       THEN music_state' = "paused" /\ is_paused' = TRUE
       ELSE IF is_paused
       THEN /\ music_state' = IF music_state = "paused" THEN "playing" ELSE music_state
            /\ is_paused' = FALSE
       ELSE UNCHANGED << music_state, is_paused >>
    /\ UNCHANGED << config, saved, current_path, current_playlist, current_song_index,
                    now_playing_song, queue, music_volume, endevents, from_queue >>

\* lines 332-342: >
CmdNextLoad(ok) ==
    /\ Command
    /\ IF queue # << >>
       THEN PlayFromQueue(ok)
       ELSE IF current_playlist # << >> /\ current_song_index # -1
       THEN PlayFromPlaylist(NextIndex(current_song_index, Len(current_playlist)), ok)
       ELSE Idle
    /\ UNCHANGED << config, saved, current_path, is_paused, music_volume, endevents >>

CmdNext == \E ok \in BOOLEAN : CmdNextLoad(ok)

\* lines 343-348: <
CmdPreviousLoad(ok) ==
    /\ Command
    /\ IF current_playlist # << >> /\ current_song_index # -1
       THEN PlayFromPlaylist(PreviousIndex(current_song_index, Len(current_playlist)),
                             ok)
       ELSE Idle
    /\ UNCHANGED << config, saved, current_path, is_paused, music_volume, endevents >>

CmdPrevious == \E ok \in BOOLEAN : CmdPreviousLoad(ok)

\* the mutant of CmdShuffleLoad: the shuffle flag is not forced
CmdShuffleLoadKeepsFlag(ok) ==
    /\ Command
    /\ LET view_playlist == ViewPlaylist(current_path)
       IN  IF view_playlist # << >>
           THEN /\ \E perm \in Shuffles(view_playlist) :
                    /\ current_playlist' = perm
                    /\ current_song_index' = 0
                    /\ PlaySong(ok)
                    /\ now_playing_song' = perm[1]
                /\ from_queue' = FALSE
                /\ UNCHANGED << config, saved >>
           ELSE UNCHANGED << config, saved, current_playlist, current_song_index,
                             music_state, now_playing_song, from_queue >>
    /\ UNCHANGED << current_path, is_paused, queue, music_volume, endevents >>

\* lines 349-358: s
CmdShuffleLoad(ok) ==
    /\ Command
    /\ LET view_playlist == ViewPlaylist(current_path)
       IN  IF view_playlist # << >>
           THEN /\ config' = [config EXCEPT !.shuffle_on = TRUE]
                /\ SaveConfig(config')
                /\ \E perm \in Shuffles(view_playlist) :
                    /\ current_playlist' = perm
                    /\ current_song_index' = 0
                    /\ PlaySong(ok)
                    /\ now_playing_song' = perm[1]
                /\ from_queue' = FALSE
           ELSE UNCHANGED << config, saved, current_playlist, current_song_index,
                             music_state, now_playing_song, from_queue >>
    /\ UNCHANGED << current_path, is_paused, queue, music_volume, endevents >>

CmdShuffle == \E ok \in BOOLEAN : CmdShuffleLoad(ok)

\* lines 367-371: the index of the playing track in the rebuilt playlist
Relocate(playlist) ==
    IF now_playing_song # NoSong /\ GetBusy /\ current_song_index # -1
    THEN IndexOf(playlist, now_playing_song)
    ELSE current_song_index

\* lines 359-372: t
CmdToggle ==
    /\ Command
    /\ config' = [config EXCEPT !.shuffle_on = ~@]
    /\ SaveConfig(config')
    /\ \E playlist \in BuildPlaylist(config'.shuffle_on, ViewPlaylist(current_path)) :
        /\ current_playlist' = playlist
        /\ current_song_index' = Relocate(playlist)
    /\ UNCHANGED << current_path, now_playing_song, is_paused, queue, music_state,
                    music_volume, endevents, from_queue >>

\* lines 373-378: q
CmdQuit ==
    /\ pc = "input"
    /\ pc' = "done"
    /\ music_state' = "stopped"
    /\ UNCHANGED << config, saved, current_path, current_playlist, current_song_index,
                    now_playing_song, is_paused, queue, music_volume, endevents,
                    from_queue >>

\* the mutant of NextPage: a full last page is followed by an empty one
NextPageOffByOne(cfg, n_audio) ==
    IF cfg.current_page * cfg.page_size + cfg.page_size <= n_audio
    THEN cfg.current_page + 1
    ELSE 0

\* lines 380-383: the page after n
NextPage(cfg, n_audio) ==
    IF cfg.current_page * cfg.page_size + cfg.page_size < n_audio
    THEN cfg.current_page + 1
    ELSE 0

\* line 387: the page after p
PreviousPage(cfg) == IF cfg.current_page - 1 > 0 THEN cfg.current_page - 1 ELSE 0

\* lines 379-385: n
CmdN ==
    /\ Command
    /\ config' = [config EXCEPT
                     !.current_page = NextPage(config, Len(AudioFiles(current_path)))]
    /\ SaveConfig(config')
    /\ UNCHANGED << current_path, current_playlist, current_song_index,
                    now_playing_song, is_paused, queue, music_state, music_volume,
                    endevents, from_queue >>

\* lines 386-389: p
CmdP ==
    /\ Command
    /\ config' = [config EXCEPT !.current_page = PreviousPage(config)]
    /\ SaveConfig(config')
    /\ UNCHANGED << current_path, current_playlist, current_song_index,
                    now_playing_song, is_paused, queue, music_state, music_volume,
                    endevents, from_queue >>

\* lines 396-398 and 400-402: the browser moves to directory d
ChangeDirectory(d) ==
    /\ current_path' = d
    /\ config' = [config EXCEPT !.current_page = 0]
    /\ SaveConfig(config')
    /\ UNCHANGED << current_playlist, current_song_index, now_playing_song,
                    music_state, from_queue >>

\* the mutant of PlayFile: the session starts at the first track of the playlist
PlayFileFromStart(f, ok) ==
    /\ \E playlist \in BuildPlaylist(config.shuffle_on, ViewPlaylist(current_path)) :
        /\ current_playlist' = playlist
        /\ current_song_index' = 0
        /\ PlaySong(ok)
        /\ now_playing_song' = playlist[1]
    /\ from_queue' = FALSE
    /\ UNCHANGED << config, saved, current_path >>

\* lines 403-414: a new session starts from the file f of the listing
PlayFile(f, ok) ==
    /\ \E playlist \in BuildPlaylist(config.shuffle_on, ViewPlaylist(current_path)) :
        LET index == IF IndexOf(playlist, f) # -1 THEN IndexOf(playlist, f) ELSE 0
        IN  /\ current_playlist' = playlist
            /\ current_song_index' = index
            /\ PlaySong(ok)
            /\ now_playing_song' = playlist[index + 1]
    /\ from_queue' = FALSE
    /\ UNCHANGED << config, saved, current_path >>

\* lines 391-416: a number
CmdSelectLoad(n, ok) ==
    /\ Command
    /\ LET item_map == ItemMap(current_path, config)
       IN  IF n \in 1..Len(item_map)
           THEN CASE item_map[n].kind = "parent" -> ChangeDirectory(Dirname(current_path))
                  [] item_map[n].kind = "dir" -> ChangeDirectory(item_map[n].dir)
                  [] item_map[n].kind = "file" -> PlayFile(item_map[n].file, ok)
           ELSE UNCHANGED << config, saved, current_path, current_playlist,
                             current_song_index, now_playing_song, music_state,
                             from_queue >>
    /\ UNCHANGED << is_paused, queue, music_volume, endevents >>

CmdSelect(n) == \E ok \in BOOLEAN : CmdSelectLoad(n, ok)

\* the mutant of CmdText: text that is no command sends the listing back to
\* its first page
CmdTextResetsPage ==
    /\ Command
    /\ config' = [config EXCEPT !.current_page = 0]
    /\ SaveConfig(config')
    /\ UNCHANGED << current_path, current_playlist, current_song_index,
                    now_playing_song, is_paused, queue, music_state, music_volume,
                    endevents, from_queue >>

\* lines 305-306 and 417-418: text that is no command and no number, at
\* either prompt; an empty line is such a text (int('') raises ValueError)
CmdText ==
    /\ Command
    /\ UNCHANGED << config, saved, current_path, current_playlist, current_song_index,
                    now_playing_song, is_paused, queue, music_state, music_volume,
                    endevents, from_queue >>

(***************************************************************************)
(* Specifications.  Next is the whole program.  The volume takes 25 values *)
(* that no other part of the state depends on, so the user of Spec leaves  *)
(* the volume keys alone, and the user of SpecSettings uses them together  *)
(* with every other command that changes the configuration.  SpecPage      *)
(* pages through the directory of 25 files with every page_size from 1 to  *)
(* the default.                                                            *)
(***************************************************************************)
DefaultPageSize == 10

Loop == PollEvent \/ Render \/ TrackEnds

Playback ==
    \/ CmdShuffle
    \/ CmdToggle
    \/ CmdNext
    \/ CmdPrevious
    \/ \E n \in 0..MaxChoice : CmdSelect(n)
    \/ CmdPause
    \/ CmdN
    \/ CmdP
    \/ \E n \in 0..MaxChoice : CmdAdd(n)
    \/ CmdClear
    \/ CmdText
    \/ CmdQuit

Settings ==
    \/ CmdVolumeUp
    \/ CmdVolumeDown
    \/ CmdShuffle
    \/ CmdToggle
    \/ \E n \in 0..MaxChoice : CmdSelect(n)
    \/ CmdN
    \/ CmdP

Paging == Render \/ CmdN \/ CmdP

Next == Loop \/ Playback \/ CmdVolumeUp \/ CmdVolumeDown

Spec == Init /\ [][Loop \/ Playback]_vars

SpecSettings == Init /\ [][Loop \/ Settings]_vars

\* the commands other than clear and q, with every load a success
Typing ==
    \/ CmdShuffleLoad(TRUE)
    \/ CmdToggle
    \/ CmdNextLoad(TRUE)
    \/ CmdPreviousLoad(TRUE)
    \/ \E n \in 0..MaxChoice : CmdSelectLoad(n, TRUE)
    \/ CmdPause
    \/ CmdN
    \/ CmdP
    \/ \E n \in 0..MaxChoice : CmdAdd(n)
    \/ CmdText

\* the player with files that all load
SpecLoads == Init /\ [][PollEventLoad(TRUE) \/ Render \/ TrackEnds \/ Typing]_vars

\* the commands of a user who browses, starts tracks from the listing,
\* queues tracks, pauses and skips, and never types clear or q
Queueing ==
    \/ \E n \in 0..MaxChoice : CmdSelectLoad(n, TRUE)
    \/ \E n \in 0..MaxChoice : CmdAdd(n)
    \/ CmdPause
    \/ CmdNextLoad(TRUE)
    \/ CmdText

Drain == PollEventLoad(TRUE) \/ Render \/ TrackEnds \/ Queueing

\* the loop keeps taking iterations: the poll and the listing are not left
\* waiting and the user keeps typing; every playing track ends: the engine,
\* on its own schedule, ends a track that is playing again and again while
\* the loop waits for input
SpecDrain ==
    /\ Init
    /\ [][Drain]_vars
    /\ WF_vars(PollEventLoad(TRUE))
    /\ WF_vars(Render)
    /\ WF_vars(Queueing)
    /\ SF_vars(TrackEnds)

InitPage ==
    \E ps \in 1..DefaultPageSize :
        InitPlayer([music_folder |-> "big", volume |-> FHalf, shuffle_on |-> FALSE,
                    page_size |-> ps, current_page |-> 0])

SpecPage == InitPage /\ [][Paging]_vars


(***************************************************************************)
(* The claims.                                                             *)
(***************************************************************************)

\* C1: whenever the queue is not empty, a completion signal and the command >
\* both pop the queue head, make it the now-playing track and set the index
\* to -1, whatever the playlist and the index were; the playlist is left as
\* it was.
QueuePriority ==
    [][ (queue # << >> /\ (PollEvent \/ CmdNext)) =>
            /\ queue' = Tail(queue)
            /\ now_playing_song' = Head(queue)
            /\ current_song_index' = -1
            /\ current_playlist' = current_playlist ]_vars

\* a queued track was started by a pop while a playlist session was there
QueuePriorityWitness ==
    /\ from_queue
    /\ current_playlist # << >>
    /\ current_song_index = -1
    /\ now_playing_song \notin {NoSong, current_playlist[1]}
    /\ music_state = "playing"

\* C2: the queue is first in, first out: a step that lengthens the queue
\* appends one track at its tail, a step that shortens it is clear or takes
\* exactly the head and makes it the now-playing track, no step reorders it,
\* and a track becomes the queue-driven now-playing track only as the head
\* that is taken; so queued tracks are played in the order of their adds,
\* once each.
QueueFifo ==
    [][ /\ Len(queue') > Len(queue) =>
              /\ Len(queue') = Len(queue) + 1
              /\ SubSeq(queue', 1, Len(queue)) = queue
        /\ Len(queue') < Len(queue) =>
              \/ CmdClear
              \/ queue' = Tail(queue) /\ now_playing_song' = Head(queue) /\ from_queue'
        /\ Len(queue') = Len(queue) => queue' = queue
        /\ (from_queue' /\ (~ from_queue \/ now_playing_song' # now_playing_song)) =>
              /\ queue # << >>
              /\ queue' = Tail(queue)
              /\ now_playing_song' = Head(queue) ]_vars

\* the first of two queued tracks is playing, and the second has become the head
QueueFifoWitness ==
    /\ from_queue
    /\ now_playing_song = 12
    /\ queue = << 11 >>
    /\ music_state = "playing"

\* C3: when the load of a track fails, now_playing and is_paused are what
\* they were before the operation (completion signal, >, <, s, file
\* selection).
LoadFailureKeepsPlayerState ==
    [][ ( \/ PollEventLoad(FALSE)
          \/ CmdNextLoad(FALSE)
          \/ CmdPreviousLoad(FALSE)
          \/ CmdShuffleLoad(FALSE)
          \/ \E n \in 0..MaxChoice : CmdSelectLoad(n, FALSE) ) =>
            /\ now_playing_song' = now_playing_song
            /\ is_paused' = is_paused ]_vars

\* C4: after a t given while a playlist track is current (index not -1,
\* playing or paused), the index is the position of now_playing in the
\* rebuilt playlist, or -1 when it is not there.
ToggleKeepsPosition ==
    [][ ( /\ CmdToggle
          /\ current_song_index # -1
          /\ music_state \in {"playing", "paused"} ) =>
            current_song_index' = IndexOf(current_playlist', now_playing_song) ]_vars

\* C5: in every state where now_playing was taken from the queue the index
\* is -1, also once that track has finished and its end event waits.
QueueTrackHasNoIndex == from_queue => current_song_index = -1

\* a queued track has finished while a playlist session was there
QueueTrackHasNoIndexWitness ==
    /\ from_queue
    /\ music_state = "stopped"
    /\ endevents = 1
    /\ current_playlist # << >>
    /\ config.shuffle_on


\* C6: n adds one to current_page when audio files remain beyond the window,
\* that is when the next window is not empty, and sets it to 0 otherwise; p
\* takes one off and stops at 0.  With page_size 10 and 25 files n goes
\* 0, 1, 2, 0 and p leaves page 0 at 0.
Pagination ==
    [][ LET page == config.current_page
            size == config.page_size
            files == AudioFiles(current_path)
        IN  /\ CmdN =>
                  config'.current_page =
                      IF Slice(files, (page + 1) * size, (page + 2) * size) # << >>
                      THEN page + 1 ELSE 0
            /\ CmdP => config'.current_page = (IF page = 0 THEN 0 ELSE page - 1)
            /\ (CmdN /\ size = 10 /\ Len(files) = 25) =>
                  /\ page \in 0..2
                  /\ config'.current_page = (page + 1) % 3
            /\ (CmdP /\ page = 0) => config'.current_page = 0 ]_vars

\* the third page of the 25 files, five of them in the window
PaginationWitness ==
    /\ config.page_size = 10
    /\ config.current_page = 2
    /\ Len(AudioFiles(current_path)) = 25
    /\ Len(PageWindow(current_path, config)) = 5
    /\ pc = "input"

AllButPc == << config, saved, current_path, current_playlist, current_song_index,
               now_playing_song, is_paused, queue, music_state, music_volume,
               endevents, from_queue >>

\* C7: with an empty queue > moves the index to (index + 1) mod the playlist
\* length, < moves it to (index - 1) mod the length whatever the queue holds,
\* and the track at the new index becomes now-playing; with an empty playlist
\* or index -1 neither changes anything; < leaves the queue as it is.
NextPreviousWrap ==
    [][ LET n == Len(current_playlist)
            session == current_playlist # << >> /\ current_song_index # -1
            next == CmdNext
            previous == CmdPrevious
        IN  /\ (queue = << >> /\ session /\ next) =>
                  /\ current_song_index' = (current_song_index + 1) % n
                  /\ now_playing_song' = current_playlist[current_song_index' + 1]
                  /\ UNCHANGED << current_playlist, queue >>
            /\ (session /\ previous) =>
                  /\ current_song_index' = (current_song_index - 1) % n
                  /\ now_playing_song' = current_playlist[current_song_index' + 1]
                  /\ UNCHANGED << current_playlist, queue >>
            /\ (~ session /\ ((queue = << >> /\ next) \/ previous)) =>
                  UNCHANGED AllButPc
            /\ previous => queue' = queue ]_vars

\* the last of three tracks is current while a track waits in the queue:
\* the place < wraps to from the first track
NextPreviousWrapWitness ==
    /\ current_playlist = << 11, 12, 13 >>
    /\ current_song_index = 2
    /\ now_playing_song = 13
    /\ queue = << 12 >>
    /\ ~ config.shuffle_on
    /\ pc = "poll"

\* the doubles nearest to 0.0, 0.1, ..., 1.0
Tenths ==
    << << 0, 0 >>, << 26843545, 161061274 >>, << 53687091, 53687092 >>,
       << 80530636, 214748364 >>, << 107374182, 107374184 >>, << 134217728, 0 >>,
       << 161061273, 161061272 >>, << 187904819, 53687088 >>,
       << 214748364, 214748368 >>, << 241591910, 107374184 >>, << 268435456, 0 >> >>

InUnit(v) == ~ FLess(v, FZero) /\ ~ FLess(FOne, v)

\* C8: the volume stays in [0.0, 1.0]; + takes the volume k/10 to (k+1)/10
\* and - takes it to (k-1)/10, stopping at 1.0 and 0.0; the new value is
\* given to the engine and saved in the same step.
VolumeSteps ==
    [][ /\ CmdVolumeUp =>
              /\ InUnit(config'.volume)
              /\ \A k \in 0..10 : config.volume = Tenths[k + 1] =>
                     config'.volume = Tenths[(IF k < 10 THEN k + 1 ELSE 10) + 1]
              /\ music_volume' = config'.volume
              /\ saved'.volume = config'.volume
        /\ CmdVolumeDown =>
              /\ InUnit(config'.volume)
              /\ \A k \in 0..10 : config.volume = Tenths[k + 1] =>
                     config'.volume = Tenths[(IF k > 0 THEN k - 1 ELSE 0) + 1]
              /\ music_volume' = config'.volume
              /\ saved'.volume = config'.volume ]_vars

\* C9: whenever the loop blocks for a command the saved configuration equals
\* the configuration in memory, in all five fields.
ConfigPersisted ==
    pc = "input" =>
        \A key \in {"music_folder", "volume", "shuffle_on", "page_size", "current_page"} :
            saved[key] = config[key]

\* the loop blocks after the volume, the page and the shuffle flag have changed
ConfigPersistedWitness ==
    /\ pc = "input"
    /\ config.volume = FOne
    /\ config.current_page = 1
    /\ config.shuffle_on
    /\ current_playlist = << 11, 12, 13 >>
    /\ saved = config

IsPermutation(a, b) ==
    /\ Len(a) = Len(b)
    /\ \A x \in {a[i] : i \in 1..Len(a)} \cup {b[i] : i \in 1..Len(b)} :
           Cardinality({i \in 1..Len(a) : a[i] = x})
               = Cardinality({i \in 1..Len(b) : b[i] = x})

ShuffledSession ==
    /\ config'.shuffle_on
    /\ saved'.shuffle_on
    /\ IsPermutation(current_playlist', ViewPlaylist(current_path))
    /\ current_song_index' = 0
    /\ current_playlist' # << >>
    /\ now_playing_song' = current_playlist'[1]

\* C10 as claimed: after every s the shuffle flag is on in memory and in the
\* file, the playlist is a permutation of the view playlist of the current
\* directory, the index is 0 and now_playing is the first track of the
\* playlist.
ShuffleAndPlayAlways == [][ CmdShuffle => ShuffledSession ]_vars

\* C10 as amended: that holds after every s given in a directory that has an
\* audio file; in a directory without one s changes nothing.
ShuffleAndPlay ==
    [][ CmdShuffle =>
            IF ViewPlaylist(current_path) # << >>
            THEN ShuffledSession
            ELSE UNCHANGED AllButPc ]_vars

\* s has started a session on a playlist that is not in sorted order, from a
\* configuration that had the flag off
ShuffleAndPlayWitness ==
    /\ current_playlist = << 13, 11, 12 >>
    /\ current_song_index = 0
    /\ now_playing_song = 13
    /\ config.shuffle_on
    /\ saved.shuffle_on
    /\ music_state = "playing"
    /\ pc = "poll"
    /\ ~ from_queue

\* C11: a line that is no command and no number, and a number that is not a
\* key of item_map, leave the current path, the configuration, the queue,
\* the playlist, the index, now_playing and is_paused (and the engine) as
\* they were, and the loop goes on to its next iteration.
InvalidInputKeepsState ==
    [][ LET n_items == Len(ItemMap(current_path, config))
        IN  ( /\ pc = "input"
              /\ \/ CmdText
                 \/ \E n \in 0..MaxChoice : n \notin 1..n_items /\ CmdSelect(n) ) =>
                /\ UNCHANGED AllButPc
                /\ pc' = "poll" ]_vars

\* the loop blocks in a folder whose listing has the parent entry only, with
\* a paused track of a session and a queued track: every number but 1 is
\* absent from item_map
InvalidInputKeepsStateWitness ==
    /\ pc = "input"
    /\ Len(ItemMap(current_path, config)) = 1
    /\ MaxChoice > 1
    /\ is_paused
    /\ music_state = "paused"
    /\ queue # << >>
    /\ current_song_index = 1

\* C12: item_map has the keys 1 .. its length; key 1 is the parent marker
\* exactly when the current path is not the music folder, and no other key
\* is; the subfolders follow in the order of the sorted listing, then the
\* audio files of the pagination window in ascending order, the window being
\* the page_size files from file current_page * page_size on.  At the root
\* with subfolders A, B and a window of two files the map is A, B, file,
\* file.
ItemIndexLayout ==
    LET item_map == ItemMap(current_path, config)
        at_root == current_path = config.music_folder
        off == IF at_root THEN 0 ELSE 1
        folders == Folders(current_path)
        files == AudioFiles(current_path)
        first == config.current_page * config.page_size
        shown == {i \in 1..Len(files) : first < i /\ i <= first + config.page_size}
        n_shown == Cardinality(shown)
    IN  /\ DOMAIN item_map = 1..(off + Len(folders) + n_shown)
        /\ \A i \in DOMAIN item_map : item_map[i].kind = "parent" <=> (i = 1 /\ ~ at_root)
        /\ \A i \in 1..Len(folders) :
               /\ item_map[off + i].kind = "dir"
               /\ item_map[off + i].dir = folders[i]
        /\ \A j \in 1..n_shown :
               /\ item_map[off + Len(folders) + j].kind = "file"
               /\ item_map[off + Len(folders) + j].file = files[first + j]
        /\ \A j \in 2..n_shown :
               item_map[off + Len(folders) + j - 1].file
                   < item_map[off + Len(folders) + j].file
        /\ (at_root /\ folders = << "A", "B" >> /\ n_shown = 2) =>
               /\ Len(item_map) = 4
               /\ item_map[1].dir = "A" /\ item_map[2].dir = "B"
               /\ item_map[3].file = files[first + 1]
               /\ item_map[4].file = files[first + 2]
               /\ \A i \in 1..4 : item_map[i].kind # "parent"

\* the listing of the root: two subfolders and a window of two files
ItemIndexLayoutWitness ==
    /\ pc = "input"
    /\ current_path = config.music_folder
    /\ Folders(current_path) = << "A", "B" >>
    /\ PageWindow(current_path, config) = << 11, 12 >>
    /\ Len(ItemMap(current_path, config)) = 4

\* the music folder and the directories below it
UnderRoot(d) ==
    \/ d = config.music_folder
    \/ \E i \in 1..Len(Folders(config.music_folder)) : Folders(config.music_folder)[i] = d

\* C13: item_map holds the parent marker exactly when the current path is
\* not the music folder; the current path is always the music folder or a
\* directory below it; every step that changes the current path sets
\* current_page to 0.
NavigationConfined ==
    /\ [](UnderRoot(current_path))
    /\ []((\E i \in 1..Len(ItemMap(current_path, config)) :
               ItemMap(current_path, config)[i].kind = "parent")
             <=> current_path # config.music_folder)
    /\ [][ current_path' # current_path =>
               /\ config'.current_page = 0
               /\ saved'.current_page = 0 ]_vars

\* the browser has gone down into B from the second page of the root, while
\* a session started at the root goes on
NavigationConfinedWitness ==
    /\ current_path = "B"
    /\ config.current_page = 0
    /\ current_playlist = << 11, 12, 13 >>
    /\ now_playing_song = 13
    /\ current_song_index = 2
    /\ music_state = "playing"
    /\ pc = "poll"

\* C14: after the selection of a number that item_map maps to a file, the
\* playlist is the sorted view playlist when shuffle_on is false and a
\* permutation of it when it is true, the index is the position of the
\* selected file in the playlist, and now_playing is the selected file.
PlayBrowsedFile ==
    [][ LET item_map == ItemMap(current_path, config)
            view_playlist == ViewPlaylist(current_path)
        IN  \A n \in 1..MaxChoice :
                ( /\ pc = "input"
                  /\ n <= Len(item_map)
                  /\ item_map[n].kind = "file"
                  /\ CmdSelect(n) ) =>
                    /\ IF config.shuffle_on
                       THEN IsPermutation(current_playlist', view_playlist)
                       ELSE current_playlist' = Sorted(view_playlist)
                    /\ current_song_index' \in 0..(Len(current_playlist') - 1)
                    /\ current_playlist'[current_song_index' + 1] = item_map[n].file
                    /\ current_song_index' = IndexOf(current_playlist', item_map[n].file)
                    /\ now_playing_song' = item_map[n].file ]_vars

\* a session was started with shuffle on from the second file of the listing,
\* which the shuffled playlist holds last
PlayBrowsedFileWitness ==
    /\ config.shuffle_on
    /\ current_playlist = << 13, 11, 12 >>
    /\ current_song_index = 2
    /\ now_playing_song = 12
    /\ music_state = "playing"
    /\ ~ from_queue
    /\ pc = "poll"

\* C15: a completion signal handled with an empty queue and a playlist that
\* is not empty moves the index to (index + 1) mod the playlist length, from
\* -1 to 0, and the track there becomes now-playing; with an empty queue and
\* an empty playlist it changes nothing.
AutoAdvance ==
    [][ (PollEvent /\ queue = << >>) =>
            IF current_playlist # << >>
            THEN /\ current_song_index' = (current_song_index + 1) % Len(current_playlist)
                 /\ current_song_index = -1 => current_song_index' = 0
                 /\ now_playing_song' = current_playlist[current_song_index' + 1]
                 /\ UNCHANGED << current_playlist, queue >>
            ELSE UNCHANGED << config, saved, current_path, current_playlist,
                              current_song_index, now_playing_song, is_paused, queue,
                              music_state, music_volume, from_queue >> ]_vars

\* the last queued track has ended and its completion signal waits, with a
\* playlist behind it
AutoAdvanceWitness ==
    /\ pc = "poll"
    /\ endevents = 1
    /\ queue = << >>
    /\ from_queue
    /\ current_song_index = -1
    /\ current_playlist = << 11, 12, 13 >>
    /\ music_state = "stopped"

\* C16: in every state the index is -1 or a position of the playlist,
\* 0 <= index < len(playlist), also after t has rebuilt the playlist from
\* another directory or an empty one while the track was paused or had ended.
ActiveIndexInRange ==
    \/ current_song_index = -1
    \/ 0 <= current_song_index /\ current_song_index < Len(current_playlist)

\* C17: in every state where the index is not -1 the track of the playlist
\* at the index is now_playing.
ActiveIndexIsNowPlaying ==
    current_song_index # -1 =>
        /\ current_song_index \in 0..(Len(current_playlist) - 1)
        /\ current_playlist[current_song_index + 1] = now_playing_song

\* C18: the completion signal of a track that has ended does not replace a
\* track that was started after it: a completion signal handled while the
\* engine plays leaves now_playing, the index, the queue and the engine as
\* they are.
CompletionKeepsStartedTrack ==
    [][ (PollEvent /\ music_state = "playing") =>
            UNCHANGED << now_playing_song, current_song_index, queue, music_state >> ]_vars

\* C19: while the player runs, is_paused is true exactly when the engine
\* holds a paused track.
PausedMirrorsEngine ==
    pc # "done" => (is_paused <=> music_state = "paused")

InQueue(f) == \E i \in 1..Len(queue) : queue[i] = f

====
